---- MODULE Spec2Model ----
(***************************************************************************)
(* Model of the Cogaint demo engine (src/demo_engine.py, class             *)
(* CogaintLeanDemo): the engine's fields after construction, and the       *)
(* scoring operations calculate_business_score and                          *)
(* process_customer_upload with the external insight collaborator.          *)
(*                                                                          *)
(* Representation.                                                          *)
(*  - inventory_turns is a float in the source (2.5 for one demo company); *)
(*    here it is held in halves: the integer n stands for n / TurnUnit.    *)
(*  - Python values whose type decides the outcome (a JSON value, a value  *)
(*    of the uploaded mapping) are tagged records [t, n, s]: t is the      *)
(*    Python type name, n the number, s the string.                        *)
(*  - An f-string factor is a record of its fixed text and the values it   *)
(*    interpolates.                                                        *)
(*  - A rate is the string of its decimal ("10.5").                        *)
(***************************************************************************)
EXTENDS Integers, Sequences, FiniteSets, TLC

VARIABLES
    openai_client,   \* self.openai_client: None or the client object
    ai_enabled,      \* self.ai_enabled
    ai_error,        \* self.ai_error: None or the reason string
    demo_companies,  \* self.demo_companies: company key -> company
    last,            \* the latest call: operation, argument, collaborator answer, outcome
    prev             \* the call before it (Untracked when only the latest call is kept)

vars == <<openai_client, ai_enabled, ai_error, demo_companies, last, prev>>

-----------------------------------------------------------------------------
(* Bounds of the checked inputs *)

MaxTurnHalves == 17
MaxYears == 6
MaxAdjustment == 10

TurnUnit == 2

None == "None"
Client == "OpenAI(api_key)"

-----------------------------------------------------------------------------
(* Tagged Python values *)

PyInt(i) == [t |-> "int", n |-> i, s |-> ""]
PyStr(x) == [t |-> "str", n |-> 0, s |-> x]
PyNone == [t |-> "NoneType", n |-> 0, s |-> ""]

\* dict.get(key, default)
DictGet(d, key, default) == IF key \in DOMAIN d THEN d[key] ELSE default

-----------------------------------------------------------------------------
(* Construction: __init__ and _initialize_openai *)

\* The ways through _initialize_openai: what the environment holds for the
\* key, and how the client creation and the test call end.
InitPaths ==
    {"no_key", "bad_format", "client_error", "auth_error", "rate_limit",
     "other_error", "ok"}

InitializeEnabledBeforeTestCall(path) ==
    CASE path = "no_key" ->
           [openai_client |-> None, ai_enabled |-> FALSE,
            ai_error |-> "No OPENAI_API_KEY found in environment variables"]
      [] path = "bad_format" ->
           [openai_client |-> None, ai_enabled |-> FALSE,
            ai_error |-> "Invalid API key format. Key should start with 'sk-proj-' or 'sk-'"]
      [] path = "client_error" ->
           [openai_client |-> None, ai_enabled |-> FALSE,
            ai_error |-> "OpenAI initialization failed: client"]
      [] path = "auth_error" ->
           [openai_client |-> Client, ai_enabled |-> TRUE,
            ai_error |-> "OpenAI API key authentication failed - key may be invalid or expired"]
      [] path = "rate_limit" ->
           [openai_client |-> Client, ai_enabled |-> TRUE,
            ai_error |-> "OpenAI rate limit exceeded - may be out of credits"]
      [] path = "other_error" ->
           [openai_client |-> Client, ai_enabled |-> TRUE,
            ai_error |-> "OpenAI initialization failed: test call"]
      [] path = "ok" ->
           [openai_client |-> Client, ai_enabled |-> TRUE, ai_error |-> None]

\* The fields _initialize_openai leaves, on each way through it.
_initialize_openai(path) ==
    CASE path = "no_key" ->
           [openai_client |-> None, ai_enabled |-> FALSE,
            ai_error |-> "No OPENAI_API_KEY found in environment variables"]
      [] path = "bad_format" ->
           [openai_client |-> None, ai_enabled |-> FALSE,
            ai_error |-> "Invalid API key format. Key should start with 'sk-proj-' or 'sk-'"]
      [] path = "client_error" ->
           [openai_client |-> None, ai_enabled |-> FALSE,
            ai_error |-> "OpenAI initialization failed: client"]
      [] path = "auth_error" ->
           [openai_client |-> Client, ai_enabled |-> FALSE,
            ai_error |-> "OpenAI API key authentication failed - key may be invalid or expired"]
      [] path = "rate_limit" ->
           [openai_client |-> Client, ai_enabled |-> FALSE,
            ai_error |-> "OpenAI rate limit exceeded - may be out of credits"]
      [] path = "other_error" ->
           [openai_client |-> Client, ai_enabled |-> FALSE,
            ai_error |-> "OpenAI initialization failed: test call"]
      [] path = "ok" ->
           [openai_client |-> Client, ai_enabled |-> TRUE, ai_error |-> None]

get_ai_status ==
    IF ai_enabled
    THEN [status |-> "enabled", message |-> <<"AI features fully operational">>]
    ELSE [status |-> "disabled", message |-> <<"AI disabled: ", ai_error>>]

\* The three demo companies (the fields the operations read).
DemoCompanies ==
    [k \in {"VelocitySnacks (High Performer)", "HealthyFoods (Medium Performer)",
            "SlowMovers Co (Struggling)"} |->
        CASE k = "VelocitySnacks (High Performer)" ->
               [name |-> "VelocitySnacks Co", industry |-> "Food & Beverage",
                revenue |-> 3500000, inventory_turns |-> 12 * TurnUnit,
                years_operating |-> 4,
                skus |-> <<[name |-> "Chocolate Protein Bar", erp |-> "PB-CHOC-001", wms |-> "PROTBAR_CHOC_12PK",
                          shopify |-> "protein-bar-chocolate",
                          monthly_velocity |-> 2500, margin |-> 35],
                         [name |-> "Vanilla Protein Bar", erp |-> "PB-VAN-001", wms |-> "PROTBAR_VAN_12PK",
                          shopify |-> "protein-bar-vanilla",
                          monthly_velocity |-> 1800, margin |-> 35]>>]
          [] k = "HealthyFoods (Medium Performer)" ->
               [name |-> "HealthyFoods Inc", industry |-> "Supplements",
                revenue |-> 1200000, inventory_turns |-> 6 * TurnUnit,
                years_operating |-> 2,
                skus |-> <<[name |-> "Vitamin D3 Supplement", erp |-> "VD3-5000-60", wms |-> "VITAMIN_D3_60CT",
                          shopify |-> "vitamin-d3-5000iu",
                          monthly_velocity |-> 800, margin |-> 45]>>]
          [] k = "SlowMovers Co (Struggling)" ->
               [name |-> "GourmetSauces Ltd", industry |-> "Specialty Foods",
                revenue |-> 800000, inventory_turns |-> 5,
                years_operating |-> 6,
                skus |-> <<[name |-> "Truffle Pasta Sauce", erp |-> "GPS-TRUF-16", wms |-> "SAUCE_TRUFFLE_16OZ",
                          shopify |-> "gourmet-truffle-sauce",
                          monthly_velocity |-> 120, margin |-> 25]>>]]

-----------------------------------------------------------------------------
(* Score tables *)

\* max(0, min(100, base_score))
NoUpperClamp(base_score) == IF base_score < 0 THEN 0 ELSE base_score

Clamp(base_score) ==
    LET capped == IF base_score < 100 THEN base_score ELSE 100
    IN  IF capped > 0 THEN capped ELSE 0

_get_risk_category(score) ==
    IF score >= 75 THEN "Low Risk"
    ELSE IF score >= 60 THEN "Medium Risk"
    ELSE IF score >= 45 THEN "High Risk"
    ELSE "Very High Risk"

RateThresholdSlip(score) ==
    IF score > 80 THEN "10.5"
    ELSE IF score >= 70 THEN "12.5"
    ELSE IF score >= 60 THEN "15.0"
    ELSE IF score >= 50 THEN "17.5"
    ELSE IF score >= 40 THEN "20.0"
    ELSE "22.0"

_score_to_rate(score) ==
    IF score >= 80 THEN "10.5"
    ELSE IF score >= 70 THEN "12.5"
    ELSE IF score >= 60 THEN "15.0"
    ELSE IF score >= 50 THEN "17.5"
    ELSE IF score >= 40 THEN "20.0"
    ELSE "22.0"

_get_decision(score) ==
    IF score >= 60 THEN "APPROVED"
    ELSE IF score >= 45 THEN "APPROVED with conditions"
    ELSE IF score >= 30 THEN "REFER for manual review"
    ELSE "DECLINED"

-----------------------------------------------------------------------------
(* The external insight collaborator *)

\* What one call of chat.completions.create and json.loads of its content can
\* give: the call raises (timeout, authentication, quota), the content is not
\* JSON, the content is JSON but a list or null, or it is a JSON object.
AdjustmentValues ==
    {-20 * MaxAdjustment, -MaxAdjustment, -3, 0, MaxAdjustment, 20 * MaxAdjustment}

RiskAdjustmentValues ==
    {PyInt(a) : a \in AdjustmentValues} \cup {PyStr("high"), PyNone}

JsonObjects ==
    {[k \in {"risk_adjustment", "key_insight"} |->
         IF k = "risk_adjustment" THEN r ELSE PyStr("insight")] :
       r \in RiskAdjustmentValues}
    \cup {[k \in {"risk_adjustment"} |-> r] : r \in RiskAdjustmentValues}
    \cup {[k \in {"key_insight"} |-> PyStr("insight")]}
    \cup {[k \in {} |-> PyNone]}

NotCalled == [kind |-> "not_called", body |-> <<>>]

Responses ==
    {[kind |-> k, body |-> <<>>] : k \in {"raise", "not_json", "json_list", "json_null"}}
    \cup {[kind |-> "json_object", body |-> o] : o \in JsonObjects}

-----------------------------------------------------------------------------
(* calculate_business_score *)

VelocityEightInclusive(turns) ==
    IF turns >= 8 * TurnUnit
    THEN [text |-> "Excellent inventory turns", value |-> turns, boost |-> 25]
    ELSE IF turns > 4 * TurnUnit
    THEN [text |-> "Good inventory turns", value |-> turns, boost |-> 15]
    ELSE IF turns > 2 * TurnUnit
    THEN [text |-> "Moderate inventory turns", value |-> turns, boost |-> 5]
    ELSE [text |-> "Slow inventory turns", value |-> turns, boost |-> -15]

\* Inventory velocity (40% weight)
VelocityFactor(turns) ==
    IF turns > 8 * TurnUnit
    THEN [text |-> "Excellent inventory turns", value |-> turns, boost |-> 25]
    ELSE IF turns > 4 * TurnUnit
    THEN [text |-> "Good inventory turns", value |-> turns, boost |-> 15]
    ELSE IF turns > 2 * TurnUnit
    THEN [text |-> "Moderate inventory turns", value |-> turns, boost |-> 5]
    ELSE [text |-> "Slow inventory turns", value |-> turns, boost |-> -15]

\* Revenue size (20% weight)
RevenueFactor(revenue) ==
    IF revenue > 5000000
    THEN [text |-> "Large revenue", value |-> revenue, boost |-> 15]
    ELSE IF revenue > 1000000
    THEN [text |-> "Good revenue", value |-> revenue, boost |-> 10]
    ELSE IF revenue < 500000
    THEN [text |-> "Small revenue", value |-> revenue, boost |-> -10]
    ELSE [text |-> "Moderate revenue", value |-> revenue, boost |-> 5]

\* Industry risk (20% weight): industry_factors.get(industry, (0, "Standard industry risk"))
industry_factors(industry) ==
    CASE industry = "Food & Beverage" -> <<10, "Low risk, stable demand">>
      [] industry = "Supplements" -> <<5, "Moderate risk, growing market">>
      [] industry = "Specialty Foods" -> <<-5, "Higher risk, niche market">>
      [] industry = "Beauty & Personal Care" -> <<0, "Moderate risk, competitive">>
      [] OTHER -> <<0, "Standard industry risk">>

IndustryFactor(industry) ==
    [text |-> "Industry", value |-> <<industry, industry_factors(industry)[2]>>,
     boost |-> industry_factors(industry)[1]]

ExperienceFromThreeYears(years) ==
    IF years > 3
    THEN [text |-> "Experienced operator", value |-> years, boost |-> 10]
    ELSE IF years > 2
    THEN [text |-> "Established business", value |-> years, boost |-> 5]
    ELSE [text |-> "Early stage", value |-> years, boost |-> -5]

\* Experience factor (10% weight)
ExperienceFactor(years) ==
    IF years > 5
    THEN [text |-> "Experienced operator", value |-> years, boost |-> 10]
    ELSE IF years > 2
    THEN [text |-> "Established business", value |-> years, boost |-> 5]
    ELSE [text |-> "Early stage", value |-> years, boost |-> -5]

FallbackPenaltyAboveThree(company) ==
    IF company.inventory_turns > 8 * TurnUnit
    THEN [adjustment |-> PyInt(10),
          factors |-> <<[text |-> "Analysis: Strong operational efficiency indicators"]>>]
    ELSE IF company.inventory_turns > 3 * TurnUnit
    THEN [adjustment |-> PyInt(-10),
          factors |-> <<[text |-> "Analysis: Inventory management concerns detected"]>>]
    ELSE [adjustment |-> PyInt(0),
          factors |-> <<[text |-> "Analysis: Standard operational patterns detected"]>>]

_get_fallback_business_insights(company) ==
    IF company.inventory_turns > 8 * TurnUnit
    THEN [adjustment |-> PyInt(10),
          factors |-> <<[text |-> "Analysis: Strong operational efficiency indicators"]>>]
    ELSE IF company.inventory_turns < 3 * TurnUnit
    THEN [adjustment |-> PyInt(-10),
          factors |-> <<[text |-> "Analysis: Inventory management concerns detected"]>>]
    ELSE [adjustment |-> PyInt(0),
          factors |-> <<[text |-> "Analysis: Standard operational patterns detected"]>>]

AiInsightsNoFactorWithoutInsight(company, response) ==
    IF ai_enabled
    THEN IF response.kind = "json_object"
         THEN [adjustment |-> DictGet(response.body, "risk_adjustment", PyInt(0)),
               factors |-> IF "key_insight" \in DOMAIN response.body
                           THEN <<[text |-> "AI Insight",
                                   value |-> response.body["key_insight"]]>>
                           ELSE <<>>]
         ELSE _get_fallback_business_insights(company)
    ELSE _get_fallback_business_insights(company)

\* With ai_enabled: the call and json.loads and the two .get run inside the
\* try, so a raising call, content that is not JSON and a JSON value without
\* .get (a list, null) end in the fallback; a JSON object is read with
\* .get("risk_adjustment", 0) and .get("key_insight", "Analysis complete"),
\* whatever the values are.
_get_ai_business_insights(company, response) ==
    IF ai_enabled
    THEN IF response.kind = "json_object"
         THEN [adjustment |-> DictGet(response.body, "risk_adjustment", PyInt(0)),
               factors |-> <<[text |-> "AI Insight",
                              value |-> DictGet(response.body, "key_insight",
                                                PyStr("Analysis complete"))]>>]
         ELSE _get_fallback_business_insights(company)
    ELSE _get_fallback_business_insights(company)

\* The outcome of a call: the exception that left it, or the mapping returned.
Raised(exception) == [raised |-> exception, returned |-> <<>>]
Returned(mapping) == [raised |-> None, returned |-> mapping]

\* company is self.demo_companies[company_key].  base_score += ai_boost["adjustment"]
\* runs outside any try: an adjustment that is no number raises TypeError.
calculate_business_score(company, response) ==
    LET velocity == VelocityFactor(company.inventory_turns)
        revenue == RevenueFactor(company.revenue)
        industry == IndustryFactor(company.industry)
        experience == ExperienceFactor(company.years_operating)
        ai_boost == _get_ai_business_insights(company, response)
        base_score == 50 + velocity.boost + revenue.boost + industry.boost
                         + experience.boost
    IN  IF ai_boost.adjustment.t # "int"
        THEN Raised("TypeError")
        ELSE LET final_score == Clamp(base_score + ai_boost.adjustment.n)
             IN  Returned([final_score |-> final_score,
                           factors |-> <<velocity, revenue, industry, experience>>
                                         \o ai_boost.factors,
                           risk_category |-> _get_risk_category(final_score),
                           recommended_rate |-> _score_to_rate(final_score),
                           decision |-> _get_decision(final_score),
                           ai_status |-> get_ai_status])

-----------------------------------------------------------------------------
(* process_customer_upload *)

UploadDefaultsNineTurns ==
    [k \in {"revenue", "inventory_turns", "industry", "years_operating"} |->
        CASE k = "revenue" -> PyInt(1000000)
          [] k = "inventory_turns" -> PyInt(9 * TurnUnit)
          [] k = "industry" -> PyStr("General")
          [] k = "years_operating" -> PyInt(2)]

\* The defaults of the four uploaded_data.get(key, default)
UploadDefaults ==
    [k \in {"revenue", "inventory_turns", "industry", "years_operating"} |->
        CASE k = "revenue" -> PyInt(1000000)
          [] k = "inventory_turns" -> PyInt(4 * TurnUnit)
          [] k = "industry" -> PyStr("General")
          [] k = "years_operating" -> PyInt(2)]

UploadGet(uploaded_data, key) == DictGet(uploaded_data, key, UploadDefaults[key])

\* except Exception as e: str(e) is Python's message for the comparison.
UploadFailed(value) ==
    Returned([error |-> <<"Processing failed: ", "'>' not supported between instances of",
                          value.t, "and 'int'">>,
              suggestion |-> "Please check your data format and try again"])

\* if inventory_turns > 8 ... elif inventory_turns < 2: what is added to base_score
UploadTurnsBoost(inventory_turns) ==
    IF inventory_turns > 8 * TurnUnit THEN 25
    ELSE IF inventory_turns > 4 * TurnUnit THEN 15
    ELSE IF inventory_turns < 2 * TurnUnit THEN -15
    ELSE 0

\* if revenue > 5000000 ... elif revenue < 500000: what is added to base_score
UploadRevenueBoost(revenue) ==
    IF revenue > 5000000 THEN 15
    ELSE IF revenue > 1000000 THEN 10
    ELSE IF revenue < 500000 THEN -10
    ELSE 0

\* The first comparison of inventory_turns, then the first of revenue, raise
\* TypeError on a value that is no number; industry and years_operating are
\* read and never used.
process_customer_upload(uploaded_data) ==
    LET revenue == UploadGet(uploaded_data, "revenue")
        inventory_turns == UploadGet(uploaded_data, "inventory_turns")
        industry == UploadGet(uploaded_data, "industry")
        years_operating == UploadGet(uploaded_data, "years_operating")
    IN  IF inventory_turns.t # "int" THEN UploadFailed(inventory_turns)
        ELSE IF revenue.t # "int" THEN UploadFailed(revenue)
        ELSE LET turns_boost == UploadTurnsBoost(inventory_turns.n)
                 revenue_boost == UploadRevenueBoost(revenue.n)
                 final_score == Clamp(50 + turns_boost + revenue_boost)
             IN  Returned([score |-> final_score,
                           rate |-> _score_to_rate(final_score),
                           decision |-> _get_decision(final_score),
                           next_steps |-> "Contact us at cogaint.com to proceed",
                           ai_status |-> get_ai_status])

-----------------------------------------------------------------------------
(* Python strings: a str is held by its text; Chars gives its characters, on
   which lower, split and in work. *)

Chars(string) ==
    CASE string = "Chocolate Protein Bar" ->
           <<"C", "h", "o", "c", "o", "l", "a", "t", "e", " ", "P", "r", "o", "t", "e", "i", "n", " ", "B", "a", "r">>
      [] string = "PB-CHOC-001" ->
           <<"P", "B", "-", "C", "H", "O", "C", "-", "0", "0", "1">>
      [] string = "PROTBAR_CHOC_12PK" ->
           <<"P", "R", "O", "T", "B", "A", "R", "_", "C", "H", "O", "C", "_", "1", "2", "P", "K">>
      [] string = "protein-bar-chocolate" ->
           <<"p", "r", "o", "t", "e", "i", "n", "-", "b", "a", "r", "-", "c", "h", "o", "c", "o", "l", "a", "t", "e">>
      [] string = "Vanilla Protein Bar" ->
           <<"V", "a", "n", "i", "l", "l", "a", " ", "P", "r", "o", "t", "e", "i", "n", " ", "B", "a", "r">>
      [] string = "PB-VAN-001" ->
           <<"P", "B", "-", "V", "A", "N", "-", "0", "0", "1">>
      [] string = "PROTBAR_VAN_12PK" ->
           <<"P", "R", "O", "T", "B", "A", "R", "_", "V", "A", "N", "_", "1", "2", "P", "K">>
      [] string = "protein-bar-vanilla" ->
           <<"p", "r", "o", "t", "e", "i", "n", "-", "b", "a", "r", "-", "v", "a", "n", "i", "l", "l", "a">>
      [] string = "Vitamin D3 Supplement" ->
           <<"V", "i", "t", "a", "m", "i", "n", " ", "D", "3", " ", "S", "u", "p", "p", "l", "e", "m", "e", "n", "t">>
      [] string = "VD3-5000-60" ->
           <<"V", "D", "3", "-", "5", "0", "0", "0", "-", "6", "0">>
      [] string = "VITAMIN_D3_60CT" ->
           <<"V", "I", "T", "A", "M", "I", "N", "_", "D", "3", "_", "6", "0", "C", "T">>
      [] string = "vitamin-d3-5000iu" ->
           <<"v", "i", "t", "a", "m", "i", "n", "-", "d", "3", "-", "5", "0", "0", "0", "i", "u">>
      [] string = "Truffle Pasta Sauce" ->
           <<"T", "r", "u", "f", "f", "l", "e", " ", "P", "a", "s", "t", "a", " ", "S", "a", "u", "c", "e">>
      [] string = "GPS-TRUF-16" ->
           <<"G", "P", "S", "-", "T", "R", "U", "F", "-", "1", "6">>
      [] string = "SAUCE_TRUFFLE_16OZ" ->
           <<"S", "A", "U", "C", "E", "_", "T", "R", "U", "F", "F", "L", "E", "_", "1", "6", "O", "Z">>
      [] string = "gourmet-truffle-sauce" ->
           <<"g", "o", "u", "r", "m", "e", "t", "-", "t", "r", "u", "f", "f", "l", "e", "-", "s", "a", "u", "c", "e">>
      [] string = "Ab c" ->
           <<"A", "b", " ", "c">>
      [] string = "x" ->
           <<"x">>
      [] string = "" ->
           <<>>
      [] string = "AB-9" ->
           <<"A", "B", "-", "9">>
      [] string = "9-9" ->
           <<"9", "-", "9">>
      [] string = "C-" ->
           <<"C", "-">>
      [] string = "B_C" ->
           <<"B", "_", "C">>
      [] string = "9" ->
           <<"9">>
      [] string = "9__9" ->
           <<"9", "_", "_", "9">>
      [] string = "ab-c" ->
           <<"a", "b", "-", "c">>
      [] string = "AB" ->
           <<"A", "B">>

UpperCase ==
    <<"A", "B", "C", "D", "E", "F", "G", "H", "I", "J", "K", "L", "M", "N", "O", "P", "Q", "R", "S", "T", "U", "V", "W", "X", "Y", "Z">>
LowerCase ==
    <<"a", "b", "c", "d", "e", "f", "g", "h", "i", "j", "k", "l", "m", "n", "o", "p", "q", "r", "s", "t", "u", "v", "w", "x", "y", "z">>

\* str.lower(), on characters
Lower(chars) ==
    [i \in 1..Len(chars) |->
        IF \E j \in 1..26 : UpperCase[j] = chars[i]
        THEN LowerCase[CHOOSE j \in 1..26 : UpperCase[j] = chars[i]]
        ELSE chars[i]]

\* str.split(delimiter): the pieces between the delimiters, empty ones kept
RECURSIVE Split(_, _)
Split(chars, delimiter) ==
    IF \A i \in 1..Len(chars) : chars[i] # delimiter
    THEN <<chars>>
    ELSE LET first == CHOOSE i \in 1..Len(chars) :
                         /\ chars[i] = delimiter
                         /\ \A j \in 1..(i - 1) : chars[j] # delimiter
         IN  <<SubSeq(chars, 1, first - 1)>>
                \o Split(SubSeq(chars, first + 1, Len(chars)), delimiter)

\* str.split(): the words between runs of blanks, none of them empty
SplitWords(chars) == SelectSeq(Split(chars, " "), LAMBDA word : word # <<>>)

\* part in text: part occurs in text as a substring (the empty part always does)
Contains(part, text) ==
    \E i \in 0..(Len(text) - Len(part)) : SubSeq(text, i + 1, i + Len(part)) = part

\* any(test(part) for part in parts)
AnyPart(parts, Test(_)) == \E i \in 1..Len(parts) : Test(parts[i])

-----------------------------------------------------------------------------
(* demonstrate_sku_fragmentation *)

\* What the identifier-matching call and json.loads of its content can give.
SkuAnalysisObject ==
    [k \in {"same_product", "confidence", "unified_name", "reasoning", "risk_factors",
            "pattern_analysis"} |->
        CASE k = "same_product" -> [t |-> "bool", n |-> 1, s |-> ""]
          [] k = "confidence" -> PyInt(95)
          [] k = "unified_name" -> PyStr("suggested product name")
          [] OTHER -> PyStr("text")]

SkuResponses ==
    {[kind |-> k, body |-> <<>>] : k \in {"raise", "not_json", "json_list", "json_null"}}
    \cup {[kind |-> "json_object", body |-> SkuAnalysisObject],
          [kind |-> "json_object", body |-> [k \in {} |-> PyNone]]}

FallbackAnalysisCapHundred(sample_sku) ==
    LET name == Chars(sample_sku.name)
        erp_parts == Split(Chars(sample_sku.erp), "-")
        wms_parts == Split(Chars(sample_sku.wms), "_")
        erp_hit == AnyPart(erp_parts, LAMBDA part : Contains(Lower(part), Lower(name)))
        wms_hit == AnyPart(wms_parts, LAMBDA part : Contains(Lower(part), Lower(name)))
        shopify_hit == AnyPart(SplitWords(Lower(name)),
                               LAMBDA part : Contains(part, Chars(sample_sku.shopify)))
        confidence == 85 + (IF erp_hit THEN 5 ELSE 0) + (IF wms_hit THEN 5 ELSE 0)
                         + (IF shopify_hit THEN 5 ELSE 0)
    IN  [same_product |-> TRUE,
         confidence |-> IF confidence < 100 THEN confidence ELSE 100,
         unified_name |-> sample_sku.name,
         reasoning |-> <<"Pattern analysis of", sample_sku.name>>
                       \o (IF erp_hit THEN <<"ERP code contains product identifiers.">>
                           ELSE <<>>)
                       \o (IF wms_hit THEN <<"WMS code follows logical naming convention.">>
                           ELSE <<>>)
                       \o (IF shopify_hit
                           THEN <<"Shopify URL matches product name structure.">>
                           ELSE <<>>)
                       \o <<"All identifiers consistently reference the same", sample_sku.name>>,
         risk_factors |-> IF confidence > 90 THEN <<>>
                          ELSE <<"Manual verification recommended">>,
         pattern_analysis |-> <<"Detected consistent product patterns across", 3, "systems">>]

\* Enhanced fallback analysis when AI is not available
_get_enhanced_fallback_analysis(sample_sku) ==
    LET name == Chars(sample_sku.name)
        erp_parts == Split(Chars(sample_sku.erp), "-")
        wms_parts == Split(Chars(sample_sku.wms), "_")
        erp_hit == AnyPart(erp_parts, LAMBDA part : Contains(Lower(part), Lower(name)))
        wms_hit == AnyPart(wms_parts, LAMBDA part : Contains(Lower(part), Lower(name)))
        shopify_hit == AnyPart(SplitWords(Lower(name)),
                               LAMBDA part : Contains(part, Chars(sample_sku.shopify)))
        confidence == 85 + (IF erp_hit THEN 5 ELSE 0) + (IF wms_hit THEN 5 ELSE 0)
                         + (IF shopify_hit THEN 5 ELSE 0)
    IN  [same_product |-> TRUE,
         confidence |-> IF confidence < 98 THEN confidence ELSE 98,
         unified_name |-> sample_sku.name,
         reasoning |-> <<"Pattern analysis of", sample_sku.name>>
                       \o (IF erp_hit THEN <<"ERP code contains product identifiers.">>
                           ELSE <<>>)
                       \o (IF wms_hit THEN <<"WMS code follows logical naming convention.">>
                           ELSE <<>>)
                       \o (IF shopify_hit
                           THEN <<"Shopify URL matches product name structure.">>
                           ELSE <<>>)
                       \o <<"All identifiers consistently reference the same", sample_sku.name>>,
         risk_factors |-> IF confidence > 90 THEN <<>>
                          ELSE <<"Manual verification recommended">>,
         pattern_analysis |-> <<"Detected consistent product patterns across", 3, "systems">>]

\* ai_analysis["ai_source"] = ai_source, on a dict
WithAiSource(ai_analysis, ai_source) ==
    [k \in DOMAIN ai_analysis \cup {"ai_source"} |->
        IF k = "ai_source" THEN ai_source ELSE ai_analysis[k]]

\* company is self.demo_companies[company_key].  Inside the try are the call
\* and json.loads: a raising call and content that is not JSON end in the
\* fallback.  Whatever json.loads returns is taken as the analysis, and
\* ai_analysis["ai_source"] = ai_source runs outside the try: on a list or on
\* None it raises TypeError.
demonstrate_sku_fragmentation(company, response) ==
    LET sample_sku == company.skus[1]
        fragmented_data ==
            ("ERP System" :> sample_sku.erp) @@ ("WMS System" :> sample_sku.wms)
            @@ ("Shopify Store" :> sample_sku.shopify)
            @@ ("Product Name" :> sample_sku.name)
        by_ai == /\ ai_enabled /\ openai_client # None
                 /\ response.kind \in {"json_list", "json_null", "json_object"}
        result(ai_solution) ==
            Returned([fragmented_data |-> fragmented_data,
                      ai_solution |-> ai_solution,
                      time_saved |-> "2+ hours -> 30 seconds",
                      accuracy |-> "95%+ with AI vs 60% manual",
                      ai_status |-> get_ai_status])
    IN  IF by_ai
        THEN IF response.kind = "json_object"
             THEN result(WithAiSource(response.body, "OpenAI GPT-4"))
             ELSE Raised("TypeError")
        ELSE result(WithAiSource(_get_enhanced_fallback_analysis(sample_sku),
                                 "Cogaint Logic Engine"))

-----------------------------------------------------------------------------
(* The checked inputs *)

\* Inventory turns in halves, 1.5 to 4.5 and 8 up; revenues at and beside the
\* thresholds; the four listed industries and one that is not listed.
TurnValues == (3..9) \cup (16..MaxTurnHalves)
RevenueValues == {499999, 500000, 1000000, 1000001, 5000000, 5000001}
Industries ==
    {"Food & Beverage", "Supplements", "Specialty Foods", "Beauty & Personal Care",
     "General"}
YearValues == 2..MaxYears

\* The first identifiers of the custom company: each of the three signals of
\* the local analysis present or not, parts that are empty, letters that
\* differ in case only.
SkuInputs ==
    [name : {"Ab c", "x", ""}, erp : {"AB-9", "9-9", "C-"}, wms : {"B_C", "9", "9__9"},
     shopify : {"ab-c", "9", "AB"}, monthly_velocity : {100}, margin : {30}]

CustomSku ==
    [name |-> "Ab c", erp |-> "AB-9", wms |-> "9", shopify |-> "AB",
     monthly_velocity |-> 100, margin |-> 30]

Profiles ==
    [name : {"Custom Co"}, industry : Industries, revenue : RevenueValues,
     inventory_turns : TurnValues, years_operating : YearValues,
     skus : {<<CustomSku>>}]

\* The profiles of the runs over the identifiers.
SkuProfiles ==
    {[name |-> "Custom Co", industry |-> "General", revenue |-> 1000001,
      inventory_turns |-> 5, years_operating |-> MaxYears, skus |-> <<sku>>] :
        sku \in SkuInputs}

\* The profiles of the runs that keep two calls.
PairProfiles ==
    {p \in Profiles : /\ p.industry = "General"
                      /\ p.revenue = 1000001
                      /\ p.inventory_turns \in {5, MaxTurnHalves}
                      /\ p.years_operating = MaxYears}

CustomKey == "Custom"

WithCustom(profile) ==
    [k \in DOMAIN DemoCompanies \cup {CustomKey} |->
        IF k = CustomKey THEN profile ELSE DemoCompanies[k]]

\* The mappings uploaded: each key absent, or holding the custom company's
\* value, or (the numeric keys) a value that is no number.
Absent == [t |-> "absent", n |-> 0, s |-> ""]

UploadChoices(key) ==
    LET company == demo_companies[CustomKey]
    IN  CASE key = "revenue" -> {Absent, PyInt(company.revenue), PyStr("abc")}
          [] key = "inventory_turns" ->
               {Absent, PyInt(company.inventory_turns), PyStr("abc")}
          [] key = "industry" -> {Absent, PyStr(company.industry)}
          [] key = "years_operating" ->
               {Absent, PyInt(company.years_operating), PyStr("abc")}

UploadMapping(revenue, inventory_turns, industry, years_operating) ==
    LET choice == [k \in {"revenue", "inventory_turns", "industry", "years_operating"} |->
                     CASE k = "revenue" -> revenue
                       [] k = "inventory_turns" -> inventory_turns
                       [] k = "industry" -> industry
                       [] k = "years_operating" -> years_operating]
    IN  [k \in {x \in DOMAIN choice : choice[x] # Absent} |-> choice[k]]

-----------------------------------------------------------------------------
(* The state machine *)

NoCall == [op |-> "none", arg |-> <<>>, response |-> NotCalled, outcome |-> Returned(<<>>)]
Untracked == [op |-> "untracked", arg |-> <<>>, response |-> NotCalled, outcome |-> Returned(<<>>)]

Constructed(path, profile) ==
    /\ openai_client = _initialize_openai(path).openai_client
    /\ ai_enabled = _initialize_openai(path).ai_enabled
    /\ ai_error = _initialize_openai(path).ai_error
    /\ demo_companies = WithCustom(profile)
    /\ last = NoCall

\* After construction; only the latest call is kept.
Init ==
    /\ \E path \in InitPaths, profile \in Profiles : Constructed(path, profile)
    /\ prev = Untracked

\* After construction; the latest two calls are kept.
InitPair ==
    /\ \E path \in InitPaths, profile \in PairProfiles : Constructed(path, profile)
    /\ prev = NoCall

\* The operations leave the engine's fields as they are, so a run is followed
\* for as many calls as are kept: one, or two.
HistoryOpen == last = NoCall \/ prev = NoCall

\* After construction, over the identifiers; only the latest call is kept.
InitSku ==
    /\ \E path \in InitPaths, profile \in SkuProfiles : Constructed(path, profile)
    /\ prev = Untracked

Record(op, arg, response, outcome) ==
    /\ last' = [op |-> op, arg |-> arg, response |-> response, outcome |-> outcome]
    /\ prev' = IF prev = Untracked THEN Untracked ELSE last

CalculateBusinessScoreRoundsTurns(company_key, response) ==
    /\ HistoryOpen
    /\ company_key \in DOMAIN demo_companies
    /\ IF ai_enabled THEN response \in Responses ELSE response = NotCalled
    /\ Record("calculate_business_score", company_key, response,
              calculate_business_score(demo_companies[company_key], response))
    /\ demo_companies' =
          [demo_companies EXCEPT ![company_key].inventory_turns = (@ \div TurnUnit) * TurnUnit]
    /\ UNCHANGED <<openai_client, ai_enabled, ai_error>>

\* calculate_business_score(company_key); the collaborator is called, and
\* answers with response, exactly when ai_enabled.
CalculateBusinessScore(company_key, response) ==
    /\ HistoryOpen
    /\ company_key \in DOMAIN demo_companies
    /\ IF ai_enabled THEN response \in Responses ELSE response = NotCalled
    /\ Record("calculate_business_score", company_key, response,
              calculate_business_score(demo_companies[company_key], response))
    /\ UNCHANGED <<openai_client, ai_enabled, ai_error, demo_companies>>

\* process_customer_upload(uploaded_data)
ProcessCustomerUpload(uploaded_data) ==
    /\ HistoryOpen
    /\ Record("process_customer_upload", uploaded_data, NotCalled,
              process_customer_upload(uploaded_data))
    /\ UNCHANGED <<openai_client, ai_enabled, ai_error, demo_companies>>

DemonstrateDisablesAiOnFailure(company_key, response) ==
    /\ HistoryOpen
    /\ company_key \in DOMAIN demo_companies
    /\ IF ai_enabled /\ openai_client # None
       THEN response \in SkuResponses ELSE response = NotCalled
    /\ Record("demonstrate_sku_fragmentation", company_key, response,
              demonstrate_sku_fragmentation(demo_companies[company_key], response))
    /\ ai_enabled' = (ai_enabled /\ response.kind \notin {"raise", "not_json"})
    /\ UNCHANGED <<openai_client, ai_error, demo_companies>>

\* demonstrate_sku_fragmentation(company_key); the collaborator is called, and
\* answers with response, exactly when ai_enabled and a client exists.
DemonstrateSkuFragmentation(company_key, response) ==
    /\ HistoryOpen
    /\ company_key \in DOMAIN demo_companies
    /\ IF ai_enabled /\ openai_client # None
       THEN response \in SkuResponses ELSE response = NotCalled
    /\ Record("demonstrate_sku_fragmentation", company_key, response,
              demonstrate_sku_fragmentation(demo_companies[company_key], response))
    /\ UNCHANGED <<openai_client, ai_enabled, ai_error, demo_companies>>

Next ==
    \/ \E company_key \in DOMAIN demo_companies, response \in SkuResponses \cup {NotCalled} :
          DemonstrateSkuFragmentation(company_key, response)
    \/ \E company_key \in DOMAIN demo_companies, response \in Responses \cup {NotCalled} :
          CalculateBusinessScore(company_key, response)
    \/ \E revenue \in UploadChoices("revenue"),
          inventory_turns \in UploadChoices("inventory_turns"),
          industry \in UploadChoices("industry"),
          years_operating \in UploadChoices("years_operating") :
          ProcessCustomerUpload(UploadMapping(revenue, inventory_turns, industry,
                                              years_operating))

Spec == Init /\ [][Next]_vars

SpecPair == InitPair /\ [][Next]_vars

SpecSku == InitSku /\ [][Next]_vars

-----------------------------------------------------------------------------
(* Reading the latest call *)

LastCalculate == last.op = "calculate_business_score"
LastUpload == last.op = "process_customer_upload"
LastReturned == last.outcome.raised = None
LastResult == last.outcome.returned
LastCompany == demo_companies[last.arg]
LastScored == LastUpload /\ LastReturned /\ "score" \in DOMAIN LastResult

\* The adjustment the fifth factor stands for: the collaborator's
\* risk_adjustment (0 when the object has none), or the fallback's.
InsightAdjustment(factor, response) ==
    CASE factor.text = "AI Insight" ->
           IF "risk_adjustment" \in DOMAIN response.body
           THEN response.body["risk_adjustment"].n ELSE 0
      [] factor.text = "Analysis: Strong operational efficiency indicators" -> 10
      [] factor.text = "Analysis: Inventory management concerns detected" -> -10
      [] OTHER -> 0

\* 50 and the adjustments of a returned factors list, unclamped.
LastSum ==
    LET f == LastResult.factors
    IN  50 + f[1].boost + f[2].boost + f[3].boost + f[4].boost
           + InsightAdjustment(f[5], last.response)

-----------------------------------------------------------------------------
(* C1: every score returned by calculate_business_score (final_score) and by
   process_customer_upload (score) lies in 0..100, whatever integer the
   collaborator returns; final_score is the sum of 50 and the five
   adjustments, clamped once at the end. *)
C1_ScoreInRange ==
    /\ (LastCalculate /\ LastReturned) =>
          /\ LastResult.final_score \in 0..100
          /\ LastResult.final_score =
                (IF LastSum < 0 THEN 0 ELSE IF LastSum > 100 THEN 100 ELSE LastSum)
    /\ LastScored => LastResult.score \in 0..100

\* The four rules reach more than 100, the collaborator lowers the sum, far
\* or not, and the score is the clamp of the whole sum.
C1_Witness ==
    /\ LastCalculate /\ LastReturned
    /\ LastResult.factors[5].text = "AI Insight"
    /\ InsightAdjustment(LastResult.factors[5], last.response) < 0
    /\ LastSum - InsightAdjustment(LastResult.factors[5], last.response) > 100
    /\ LastSum > 100
    /\ LastResult.final_score = 100

-----------------------------------------------------------------------------
(* C2: in every result without error, rate, decision and (calculate) risk
   category are the fixed tables of the returned score: rate 10.5 from 80,
   12.5 from 70, 15.0 from 60, 17.5 from 50, 20.0 from 40, else 22.0;
   decision APPROVED from 60, APPROVED with conditions from 45, REFER for
   manual review from 30, else DECLINED; category Low Risk from 75, Medium
   Risk from 60, High Risk from 45, else Very High Risk. *)
C2_Rate(score, rate) ==
    /\ score >= 80 => rate = "10.5"
    /\ (score >= 70 /\ score < 80) => rate = "12.5"
    /\ (score >= 60 /\ score < 70) => rate = "15.0"
    /\ (score >= 50 /\ score < 60) => rate = "17.5"
    /\ (score >= 40 /\ score < 50) => rate = "20.0"
    /\ score < 40 => rate = "22.0"

C2_Decision(score, decision) ==
    /\ score >= 60 => decision = "APPROVED"
    /\ (score >= 45 /\ score < 60) => decision = "APPROVED with conditions"
    /\ (score >= 30 /\ score < 45) => decision = "REFER for manual review"
    /\ score < 30 => decision = "DECLINED"

C2_Category(score, category) ==
    /\ score >= 75 => category = "Low Risk"
    /\ (score >= 60 /\ score < 75) => category = "Medium Risk"
    /\ (score >= 45 /\ score < 60) => category = "High Risk"
    /\ score < 45 => category = "Very High Risk"

C2_TablesOfScore ==
    /\ (LastCalculate /\ LastReturned) =>
          /\ C2_Rate(LastResult.final_score, LastResult.recommended_rate)
          /\ C2_Decision(LastResult.final_score, LastResult.decision)
          /\ C2_Category(LastResult.final_score, LastResult.risk_category)
    /\ LastScored =>
          /\ C2_Rate(LastResult.score, LastResult.rate)
          /\ C2_Decision(LastResult.score, LastResult.decision)

\* A score of exactly 80 reached through the collaborator's adjustment.
C2_Witness ==
    /\ LastCalculate /\ LastReturned
    /\ LastResult.factors[5].text = "AI Insight"
    /\ LastResult.final_score = 80
    /\ LastResult.recommended_rate = "10.5"
    /\ LastResult.decision = "APPROVED"
    /\ LastResult.risk_category = "Low Risk"

-----------------------------------------------------------------------------
(* C3: with the collaborator unavailable, final_score is
   clamp(50 + velocity + revenue + industry + experience + fallback) with the
   buckets of the rule table; turns exactly 8 is in the +15 bucket and turns
   above 8 in the +25 bucket. *)
C3_Velocity(turns) ==
    CASE turns > 8 * TurnUnit -> 25
      [] turns > 4 * TurnUnit /\ turns <= 8 * TurnUnit -> 15
      [] turns > 2 * TurnUnit /\ turns <= 4 * TurnUnit -> 5
      [] turns <= 2 * TurnUnit -> -15

C3_Revenue(revenue) ==
    CASE revenue > 5000000 -> 15
      [] revenue > 1000000 /\ revenue <= 5000000 -> 10
      [] revenue < 500000 -> -10
      [] OTHER -> 5

C3_Industry(industry) ==
    CASE industry = "Food & Beverage" -> 10
      [] industry = "Supplements" -> 5
      [] industry = "Specialty Foods" -> -5
      [] OTHER -> 0

C3_Experience(years) ==
    CASE years > 5 -> 10
      [] years > 2 /\ years <= 5 -> 5
      [] years <= 2 -> -5

C3_Fallback(turns) ==
    CASE turns > 8 * TurnUnit -> 10
      [] turns < 3 * TurnUnit -> -10
      [] OTHER -> 0

C3_Expected(company) ==
    LET sum == 50 + C3_Velocity(company.inventory_turns) + C3_Revenue(company.revenue)
                  + C3_Industry(company.industry)
                  + C3_Experience(company.years_operating)
                  + C3_Fallback(company.inventory_turns)
    IN  IF sum < 0 THEN 0 ELSE IF sum > 100 THEN 100 ELSE sum

C3_FallbackScore ==
    (LastCalculate /\ ~ai_enabled) =>
        /\ LastReturned
        /\ LastResult.final_score = C3_Expected(LastCompany)

\* Inventory turns of exactly 8, scored without the collaborator: +15.
C3_Witness ==
    /\ LastCalculate /\ ~ai_enabled /\ LastReturned
    /\ LastCompany.inventory_turns = 8 * TurnUnit
    /\ LastResult.factors[1].boost = 15
    /\ LastResult.factors[5].text = "Analysis: Standard operational patterns detected"

-----------------------------------------------------------------------------
(* C4: with the AI client enabled and the insight call failing or answering
   malformed (an exception, text that is not JSON, JSON that is no object, an
   object without risk_adjustment or without key_insight, a risk_adjustment
   that is no number), calculate_business_score raises nothing and returns
   the score, rate, decision and category of the local fallback. *)
C4_Malformed(response) ==
    \/ response.kind \in {"raise", "not_json", "json_list", "json_null"}
    \/ /\ response.kind = "json_object"
       /\ \/ "risk_adjustment" \notin DOMAIN response.body
          \/ "key_insight" \notin DOMAIN response.body
          \/ response.body["risk_adjustment"].t # "int"

C4_MalformedIsFallback ==
    (LastCalculate /\ ai_enabled /\ C4_Malformed(last.response)) =>
        /\ LastReturned
        /\ LastResult.final_score = C3_Expected(LastCompany)
        /\ C2_Rate(C3_Expected(LastCompany), LastResult.recommended_rate)
        /\ C2_Decision(C3_Expected(LastCompany), LastResult.decision)
        /\ C2_Category(C3_Expected(LastCompany), LastResult.risk_category)

-----------------------------------------------------------------------------
(* C5: process_customer_upload never raises, and whenever a supplied revenue,
   inventory_turns or years_operating holds a value that is no number it
   returns a result whose keys are exactly error and suggestion. *)
C5_NotANumber(uploaded_data) ==
    \E k \in {"revenue", "inventory_turns", "years_operating"} \cap DOMAIN uploaded_data :
        uploaded_data[k].t # "int"

C5_NonNumberIsError ==
    LastUpload =>
        /\ LastReturned
        /\ C5_NotANumber(last.arg) => DOMAIN LastResult = {"error", "suggestion"}

-----------------------------------------------------------------------------
(* C6: whatever keys of revenue, inventory_turns, industry, years_operating
   are absent, process_customer_upload returns what it returns when they are
   supplied with revenue 1,000,000, inventory_turns 4, industry General,
   years_operating 2, and that is a result without error when the supplied
   numeric values are numbers. *)
C6_Explicit(uploaded_data) ==
    [k \in {"revenue", "inventory_turns", "industry", "years_operating"} |->
        IF k \in DOMAIN uploaded_data THEN uploaded_data[k]
        ELSE CASE k = "revenue" -> PyInt(1000000)
               [] k = "inventory_turns" -> PyInt(4 * TurnUnit)
               [] k = "industry" -> PyStr("General")
               [] k = "years_operating" -> PyInt(2)]

C6_AbsentIsDefault ==
    LastUpload =>
        /\ last.outcome = process_customer_upload(C6_Explicit(last.arg))
        /\ ~C5_NotANumber(last.arg) => LastScored

\* Revenue alone supplied, the other three keys absent, and a score returned.
C6_Witness ==
    /\ LastUpload /\ LastScored
    /\ DOMAIN last.arg = {"revenue"}
    /\ last.arg["revenue"].n > 1000000
    /\ LastResult.score = 50 + (IF last.arg["revenue"].n > 5000000 THEN 15 ELSE 10)

-----------------------------------------------------------------------------
(* C7: with the collaborator unavailable, raising the inventory turns of a
   profile, everything else fixed, never lowers the score of
   calculate_business_score nor that of process_customer_upload. *)
C7_MonotoneInTurns ==
    /\ (LastCalculate /\ ~ai_enabled) =>
          \A t \in TurnValues :
              t >= LastCompany.inventory_turns =>
                  calculate_business_score([LastCompany EXCEPT !.inventory_turns = t],
                                           NotCalled).returned.final_score
                      >= LastResult.final_score
    /\ (LastScored /\ "inventory_turns" \in DOMAIN last.arg) =>
          \A t \in TurnValues :
              t >= last.arg["inventory_turns"].n =>
                  process_customer_upload([last.arg EXCEPT !["inventory_turns"] = PyInt(t)])
                      .returned.score >= LastResult.score

\* Turns of 2.5 scored without the collaborator, and turns of 3 score more:
\* the fallback's threshold lies between them.
C7_Witness ==
    /\ LastCalculate /\ ~ai_enabled /\ LastReturned
    /\ LastCompany.inventory_turns = 5
    /\ LastResult.final_score > 0
    /\ calculate_business_score([LastCompany EXCEPT !.inventory_turns = 3 * TurnUnit],
                                NotCalled).returned.final_score
          > LastResult.final_score

-----------------------------------------------------------------------------
(* C8 as stated: for VelocitySnacks (revenue 3,500,000, turns 12, Food &
   Beverage, 4 years) calculate_business_score adds +25, +15, +10 and +10
   onto 50 to reach 110 and returns final_score 100, rate 10.5, APPROVED,
   Low Risk, with the insight adjustment on top. *)
VelocitySnacks == "VelocitySnacks (High Performer)"

C8_Original ==
    (LastCalculate /\ last.arg = VelocitySnacks) =>
        /\ LastReturned
        /\ LastResult.factors[1].boost = 25
        /\ LastResult.factors[2].boost = 15
        /\ LastResult.factors[3].boost = 10
        /\ LastResult.factors[4].boost = 10
        /\ LastResult.final_score = 100
        /\ LastResult.recommended_rate = "10.5"
        /\ LastResult.decision = "APPROVED"
        /\ LastResult.risk_category = "Low Risk"

(* C8: for VelocitySnacks every returned result has the adjustments +25
   (turns), +10 (revenue), +10 (industry), +5 (years), which reach 100 on
   base 50; the result is final_score 100, rate 10.5, APPROVED, Low Risk when
   the insight adjustment is the fallback's or a collaborator's that is not
   negative; a negative collaborator adjustment a gives max(0, 100 + a). *)
C8_VelocitySnacks ==
    (LastCalculate /\ last.arg = VelocitySnacks) =>
        /\ ~ai_enabled => LastReturned
        /\ LastReturned =>
             LET adjustment == InsightAdjustment(LastResult.factors[5], last.response)
             IN  /\ LastResult.factors[1].boost = 25
                 /\ LastResult.factors[2].boost = 10
                 /\ LastResult.factors[3].boost = 10
                 /\ LastResult.factors[4].boost = 5
                 /\ (LastResult.factors[5].text # "AI Insight" \/ adjustment >= 0) =>
                       /\ LastResult.final_score = 100
                       /\ LastResult.recommended_rate = "10.5"
                       /\ LastResult.decision = "APPROVED"
                       /\ LastResult.risk_category = "Low Risk"
                 /\ (LastResult.factors[5].text = "AI Insight" /\ adjustment < 0) =>
                       LastResult.final_score =
                          (IF 100 + adjustment < 0 THEN 0 ELSE 100 + adjustment)

\* VelocitySnacks scored with the fallback's +10 on top: 110, clamped to 100.
C8_Witness ==
    /\ LastCalculate /\ last.arg = VelocitySnacks /\ LastReturned
    /\ LastResult.factors[5].text = "Analysis: Strong operational efficiency indicators"
    /\ LastSum = 110
    /\ LastResult.final_score = 100

-----------------------------------------------------------------------------
(* C9 as stated: two calls of the same operation with the same argument on
   the same engine return identical results, also when the collaborator is
   enabled and answers the two calls differently. *)
SameCallTwice ==
    /\ last.op \in {"calculate_business_score", "process_customer_upload"}
    /\ prev.op = last.op
    /\ prev.arg = last.arg

C9_Original == SameCallTwice => prev.outcome = last.outcome

(* C9: two calls of the same operation with the same argument on the same
   engine return identical results whenever the collaborator is not called
   or gives both calls the same answer; process_customer_upload never calls
   it. *)
C9_Determinism ==
    (SameCallTwice /\ prev.response = last.response) => prev.outcome = last.outcome

\* Two calls for one company, the collaborator answering both with the same
\* object, and two equal returned results.
C9_Witness ==
    /\ SameCallTwice /\ LastCalculate /\ ai_enabled
    /\ last.response.kind = "json_object"
    /\ prev.response = last.response
    /\ LastReturned
    /\ prev.outcome = last.outcome

-----------------------------------------------------------------------------
(* C10: every factors list returned by calculate_business_score has five
   entries, in the order velocity, revenue, industry, experience, insight
   adjustment, on the collaborator's path and on the fallback's. *)
C10_FactorTexts ==
    <<{"Excellent inventory turns", "Good inventory turns", "Moderate inventory turns",
       "Slow inventory turns"},
      {"Large revenue", "Good revenue", "Small revenue", "Moderate revenue"},
      {"Industry"},
      {"Experienced operator", "Established business", "Early stage"},
      {"AI Insight", "Analysis: Strong operational efficiency indicators",
       "Analysis: Inventory management concerns detected",
       "Analysis: Standard operational patterns detected"}>>

C10_FiveFactorsInOrder ==
    (LastCalculate /\ LastReturned) =>
        /\ Len(LastResult.factors) = 5
        /\ \A i \in 1..5 : LastResult.factors[i].text \in C10_FactorTexts[i]

\* The collaborator's object has no key_insight: the fifth factor is still
\* the collaborator's, with the default text.
C10_Witness ==
    /\ LastCalculate /\ LastReturned /\ ai_enabled
    /\ last.response.kind = "json_object"
    /\ "key_insight" \notin DOMAIN last.response.body
    /\ Len(LastResult.factors) = 5
    /\ LastResult.factors[5] = [text |-> "AI Insight", value |-> PyStr("Analysis complete")]

-----------------------------------------------------------------------------
(* C11: process_customer_upload applies the inventory-velocity rule of the
   rule table: +25 if turns > 8, +15 if 4 < turns <= 8, +5 if 2 < turns <= 4,
   -15 if turns <= 2.  Stated on the returned score, the revenue adjustment
   being the one the upload path applies. *)
C11_UploadVelocityRule ==
    LastScored =>
        LET turns == UploadGet(last.arg, "inventory_turns").n
            sum == 50 + C3_Velocity(turns)
                      + UploadRevenueBoost(UploadGet(last.arg, "revenue").n)
        IN  LastResult.score = (IF sum < 0 THEN 0 ELSE IF sum > 100 THEN 100 ELSE sum)

-----------------------------------------------------------------------------
(* C12: for every profile, the score, rate and decision of
   process_customer_upload equal the final_score, recommended_rate and
   decision calculate_business_score returns for a company with the same
   revenue, turns, industry and years while the collaborator is
   unavailable. *)
C12_SuppliedProfile(uploaded_data) ==
    [name |-> "Uploaded Co",
     industry |-> uploaded_data["industry"].s,
     revenue |-> uploaded_data["revenue"].n,
     inventory_turns |-> uploaded_data["inventory_turns"].n,
     years_operating |-> uploaded_data["years_operating"].n]

C12_PathsAgree ==
    (/\ LastScored
     /\ ~ai_enabled
     /\ DOMAIN last.arg = {"revenue", "inventory_turns", "industry", "years_operating"}
     /\ last.arg["years_operating"].t = "int") =>
        LET full == calculate_business_score(C12_SuppliedProfile(last.arg), NotCalled)
        IN  /\ LastResult.score = full.returned.final_score
            /\ LastResult.rate = full.returned.recommended_rate
            /\ LastResult.decision = full.returned.decision

-----------------------------------------------------------------------------
(* C13: demonstrate_sku_fragmentation never lets a collaborator failure
   escape: with the AI client disabled, or the identifier-matching call
   raising or answering with text that is not JSON or with JSON that is no
   object, it returns a result whose ai_solution is the local analysis with
   ai_source 'Cogaint Logic Engine'; ai_source is 'OpenAI GPT-4' only when
   the call returned a JSON object. *)
LastSku == last.op = "demonstrate_sku_fragmentation"

C13_FailureIsFallback ==
    LastSku =>
        /\ (\/ ~ai_enabled
            \/ last.response.kind \in {"raise", "not_json", "json_list", "json_null"}) =>
              /\ LastReturned
              /\ LastResult.ai_solution =
                    WithAiSource(_get_enhanced_fallback_analysis(LastCompany.skus[1]),
                                 "Cogaint Logic Engine")
        /\ (LastReturned /\ LastResult.ai_solution["ai_source"] = "OpenAI GPT-4") =>
              last.response.kind = "json_object"

-----------------------------------------------------------------------------
(* C14: the local analysis returns a confidence of 85 plus 5 for each of the
   three signals (a piece of the ERP code in the name, a piece of the WMS code
   in the name, a word of the name in the storefront slug), capped at 98: it
   is one of 85, 90, 95, 98, and the unified name is the product name. *)
C14_Signals(sku) ==
    LET name == Lower(Chars(sku.name))
        erp == \E i \in 1..Len(Split(Chars(sku.erp), "-")) :
                   Contains(Lower(Split(Chars(sku.erp), "-")[i]), name)
        wms == \E i \in 1..Len(Split(Chars(sku.wms), "_")) :
                   Contains(Lower(Split(Chars(sku.wms), "_")[i]), name)
        slug == \E i \in 1..Len(SplitWords(name)) :
                   Contains(SplitWords(name)[i], Chars(sku.shopify))
    IN  (IF erp THEN 1 ELSE 0) + (IF wms THEN 1 ELSE 0) + (IF slug THEN 1 ELSE 0)

LastLocalAnalysis ==
    /\ LastSku /\ LastReturned
    /\ LastResult.ai_solution["ai_source"] = "Cogaint Logic Engine"

C14_ConfidenceCapped ==
    LastLocalAnalysis =>
        LET analysis == LastResult.ai_solution
            signals == C14_Signals(LastCompany.skus[1])
        IN  /\ analysis["confidence"] \in {85, 90, 95, 98}
            /\ analysis["confidence"] = (IF signals = 3 THEN 98 ELSE 85 + 5 * signals)
            /\ analysis["unified_name"] = LastCompany.skus[1].name

\* All three signals on the custom company's identifiers: 100, returned as 98.
C14_Witness ==
    /\ LastLocalAnalysis
    /\ last.arg = CustomKey
    /\ C14_Signals(LastCompany.skus[1]) = 3
    /\ LastResult.ai_solution["confidence"] = 98
    /\ LastResult.ai_solution["risk_factors"] = <<>>

-----------------------------------------------------------------------------
(* C15: no call of calculate_business_score, process_customer_upload or
   demonstrate_sku_fragmentation, a failing collaborator included, changes
   ai_enabled, ai_error, openai_client or demo_companies: they keep the
   values of the construction. *)
AsConstructed ==
    /\ \E path \in InitPaths :
          /\ openai_client = _initialize_openai(path).openai_client
          /\ ai_enabled = _initialize_openai(path).ai_enabled
          /\ ai_error = _initialize_openai(path).ai_error
    /\ \A k \in DOMAIN DemoCompanies : demo_companies[k] = DemoCompanies[k]

C15_NoSideEffects ==
    /\ []AsConstructed
    /\ [][/\ openai_client' = openai_client
          /\ ai_enabled' = ai_enabled
          /\ ai_error' = ai_error
          /\ demo_companies' = demo_companies]_vars

\* Two calls whose collaborator failed, and the engine as constructed with
\* the client enabled.
C15_Witness ==
    /\ prev.op = "calculate_business_score" /\ prev.response.kind = "raise"
    /\ LastSku /\ last.response.kind = "not_json"
    /\ ai_enabled /\ openai_client = Client /\ ai_error = None
    /\ \A k \in DOMAIN DemoCompanies : demo_companies[k] = DemoCompanies[k]

-----------------------------------------------------------------------------
(* C16: on every way through _initialize_openai exactly one of two states
   holds afterwards: ai_enabled with a client and no ai_error, or not
   ai_enabled with an ai_error; get_ai_status reports 'enabled' exactly in the
   first and 'disabled' with the reason in the second; the collaborator is
   called only when a client exists. *)
AiOn == ai_enabled /\ openai_client # None /\ ai_error = None
AiOff == ~ai_enabled /\ ai_error # None

C16_EnabledOrReason ==
    /\ AiOn # AiOff
    /\ (get_ai_status.status = "enabled") <=> AiOn
    /\ AiOff => get_ai_status = [status |-> "disabled",
                                 message |-> <<"AI disabled: ", ai_error>>]
    /\ (LastReturned /\ "ai_status" \in DOMAIN LastResult) =>
          LastResult.ai_status = get_ai_status
    /\ last.response # NotCalled => openai_client # None

\* The test call failed after the client was made: a client, not enabled, the
\* reason reported, and scoring done without the collaborator.
C16_Witness ==
    /\ openai_client = Client /\ ~ai_enabled
    /\ ai_error = "OpenAI rate limit exceeded - may be out of credits"
    /\ LastCalculate /\ last.response = NotCalled /\ LastReturned
    /\ LastResult.ai_status.status = "disabled"

====
